---- MODULE Spec2Model ----
(***************************************************************************)
(* Transport-entry backend (TPT-Backend): the entry store with its unique  *)
(* business-ID index, the pre-save financial-year ID allocator and the     *)
(* route handlers of /api/transport-entries, each split at its awaits.     *)
(* Strings are sequences of one-character strings, so that the regex       *)
(* prefix match, the string sort, split('-'), parseInt and padStart of     *)
(* the allocator are computed the way the code computes them.  Beside them *)
(* the user routes, the password routes of /api/auth, the error handler    *)
(* and EmailService.sendEmail, each under a specification of its own.      *)
(***************************************************************************)
EXTENDS Integers, Sequences, FiniteSets, TLC

\* ------------------------------------------------------------------ bounds
\* number of entries ever inserted in one run (internal ids 1..MaxEntries)
MaxEntries == 2
\* the same, in the runs whose creations are serialized
MaxSerial == 3
\* first calendar year and number of further years of the date domain on
\* which getFinancialYear is exercised on its own
FirstYear == 2023
YearSpan == 2
\* greatest number of entries of one user in the stores that are paged through
MaxOwned == 25
\* the time up to which the clock runs while reset tokens are presented
MaxClock == 11

\* ------------------------------------------------------- program constants
\* padStart(4, '0') of the allocator
PadWidth == 4
\* first month of the financial year (April)
FYStartMonth == 4

\* ----------------------------------------------------------------- strings
\* the characters used by the model, in code-unit (ASCII) order
Ascii == << "-", "0", "1", "2", "3", "4", "5", "6", "7", "8", "9",
            "A", "E", "F", "G", "H", "K", "M", "O", "T", "Y",
            "a", "e", "f", "g", "h", "k", "m", "o", "t", "y" >>

Ord(c) == CHOOSE i \in 1..Len(Ascii) : Ascii[i] = c

Digits == << "0", "1", "2", "3", "4", "5", "6", "7", "8", "9" >>

IsDigit(c) == \E i \in 1..10 : Digits[i] = c

DigitVal(c) == (CHOOSE i \in 1..10 : Digits[i] = c) - 1

UpperOf == [ c \in {"a", "e", "f", "g", "h", "k", "m", "o", "t", "y"} |->
             CASE c = "a" -> "A" [] c = "e" -> "E" [] c = "f" -> "F"
               [] c = "g" -> "G" [] c = "h" -> "H" [] c = "k" -> "K"
               [] c = "m" -> "M" [] c = "o" -> "O" [] c = "t" -> "T"
               [] c = "y" -> "Y" ]

\* String.prototype.toUpperCase, character by character
ToUpper(s) == [ i \in 1..Len(s) |-> IF s[i] \in DOMAIN UpperOf THEN UpperOf[s[i]] ELSE s[i] ]

\* s.includes(p): the match of an unanchored literal regex
Includes(s, p) ==
  \E i \in 0..(Len(s) - Len(p)) : SubSeq(s, i + 1, i + Len(p)) = p

\* { $regex: p, $options: 'i' } on a string field
RegexI(s, p) == Includes(ToUpper(s), ToUpper(p))

\* { $regex: '^' + p } on a string field
StartsWith(s, p) == Len(s) >= Len(p) /\ SubSeq(s, 1, Len(p)) = p

\* a < b in the string order of the store (code-unit comparison)
RECURSIVE StrLess(_, _)
StrLess(a, b) ==
  IF b = << >> THEN FALSE
  ELSE IF a = << >> THEN TRUE
  ELSE IF a[1] # b[1] THEN Ord(a[1]) < Ord(b[1])
  ELSE StrLess(Tail(a), Tail(b))

\* String(n) for a non-negative integer
RECURSIVE ToStr(_)
ToStr(n) == IF n < 10 THEN << Digits[n + 1] >>
            ELSE Append(ToStr(n \div 10), Digits[(n % 10) + 1])

\* s.slice(-2)
SliceLast2(s) == IF Len(s) <= 2 THEN s ELSE SubSeq(s, Len(s) - 1, Len(s))

\* s.padStart(PadWidth, '0')
RECURSIVE PadStart(_)
PadStart(s) == IF Len(s) >= PadWidth THEN s ELSE PadStart(<< "0" >> \o s)

\* the last element of s.split('-')
RECURSIVE LastPart(_)
LastPart(s) ==
  IF s = << >> THEN << >>
  ELSE IF \E i \in 1..Len(s) : s[i] = "-" THEN LastPart(Tail(s))
  ELSE s

\* NaN, as a number that no string of the model parses to
NaN == -1000000000

\* the value of the longest prefix of digits of s
RECURSIVE ParseDigits(_, _)
ParseDigits(s, acc) ==
  IF s = << >> \/ ~IsDigit(s[1]) THEN acc
  ELSE ParseDigits(Tail(s), 10 * acc + DigitVal(s[1]))

\* parseInt(s): leading blanks are skipped, then an optional sign and the
\* longest prefix of digits are read; NaN if there is no digit to read
RECURSIVE ParseInt(_)
ParseInt(s) ==
  IF s = << >> THEN NaN
  ELSE IF s[1] = " " THEN ParseInt(Tail(s))
  ELSE LET digits == IF s[1] \in {"+", "-"} THEN Tail(s) ELSE s
       IN IF digits = << >> \/ ~IsDigit(digits[1]) THEN NaN
          ELSE IF s[1] = "-" THEN 0 - ParseDigits(digits, 0)
          ELSE ParseDigits(digits, 0)

\* validator.js isInt(s, { min, max }): s matches /^[-+]?[0-9]+$/ and its
\* value lies within the limits
IsInt(s, min, max) ==
  LET digits == IF s # << >> /\ s[1] \in {"+", "-"} THEN Tail(s) ELSE s
  IN /\ digits # << >>
     /\ \A i \in 1..Len(digits) : IsDigit(digits[i])
     /\ ParseInt(s) >= min
     /\ ParseInt(s) <= max

\* ------------------------------------------------------------------- dates
\* a Date, by the local calendar fields the code reads from it (getFullYear,
\* getMonth): a date is the calendar day it falls on at the server
Date(y, m, d) == [year |-> y, month |-> m, day |-> d]

\* the dates getFinancialYear is exercised on: the first and the last day
\* of every month of some years, the turn of a century among them
LastDay(m) == IF m = 2 THEN 28 ELSE IF m \in {4, 6, 9, 11} THEN 30 ELSE 31

FYYears == (FirstYear..(FirstYear + YearSpan)) \cup {1999, 2099}

FYDates ==
  UNION { { Date(y, m, 1), Date(y, m, LastDay(m)) } : y \in FYYears, m \in 1..12 }

\* date.getMonth(), 0-indexed
GetMonth(date) == date.month - 1

\* the financial year taken to start in May ('>' written for '>=')
getFinancialYearFromMay(date) ==
  LET currentYear == date.year
      currentMonth == GetMonth(date) + 1
  IN IF currentMonth > FYStartMonth
       THEN ToStr(currentYear) \o << "-" >> \o SliceLast2(ToStr(currentYear + 1))
       ELSE ToStr(currentYear - 1) \o << "-" >> \o SliceLast2(ToStr(currentYear))

getFinancialYear(date) ==
  LET currentYear == date.year
      currentMonth == GetMonth(date) + 1
  IN IF currentMonth >= FYStartMonth
       THEN ToStr(currentYear) \o << "-" >> \o SliceLast2(ToStr(currentYear + 1))
       ELSE ToStr(currentYear - 1) \o << "-" >> \o SliceLast2(ToStr(currentYear))

\* `TE-FY${financialYear}-`
IdPrefix(fy) == << "T", "E", "-", "F", "Y" >> \o fy \o << "-" >>

\* ------------------------------------------------------------ request data
\* the authenticated users (req.user._id)
Users == {"u1", "u2"}

\* absent body field
NoId == << >>
NoUser == "absent"

Statuses == {"PENDING", "IN_PROGRESS", "COMPLETED", "CANCELLED"}

Mar31 == Date(2023, 3, 31)
Apr01 == Date(2024, 4, 1)
Apr02 == Date(2024, 4, 2)

Id9999 == IdPrefix(getFinancialYear(Apr01)) \o << "9", "9", "9", "9" >>

RouteA == [vehicleNo |-> << "m", "h" >>, from |-> << "G", "o", "a" >>,
           to |-> << "O", "o", "t", "y" >>, invoiceNo |-> << "A", "1" >>,
           owner |-> << "K", "a", "y" >>, bill |-> 40, handleCharges |-> 10,
           detention |-> 0, freight |-> 50, total |-> 100]
RouteB == [vehicleNo |-> << "K", "A" >>, from |-> << "O", "o", "t", "y" >>,
           to |-> << "G", "o", "a" >>, invoiceNo |-> << "E", "2" >>,
           owner |-> << "T", "o", "m" >>, bill |-> 100, handleCharges |-> 20,
           detention |-> 30, freight |-> 100, total |-> 250]

MkBody(route, date, status, id, userId) ==
  [vehicleNo |-> route.vehicleNo, from |-> route.from, to |-> route.to,
   invoiceNo |-> route.invoiceNo, owner |-> route.owner, bill |-> route.bill,
   handleCharges |-> route.handleCharges, detention |-> route.detention,
   freight |-> route.freight, total |-> route.total,
   date |-> date, status |-> status, id |-> id, userId |-> userId]

\* a body the validator chain rejects: no vehicle number, unknown status
BadBody == MkBody([RouteA EXCEPT !.vehicleNo = << >>], Apr01, "DONE", NoId, NoUser)

\* the request bodies (req.body) of POST and PUT when writers race: a body
\* that leaves the id to the allocator, a body that carries an id and a
\* userId, and a body that is rejected
Bodies ==
  { MkBody(RouteA, Apr01, "PENDING", NoId, NoUser),
    MkBody(RouteA, Apr01, "PENDING", Id9999, "u2"),
    BadBody }

\* the bodies of the writer that runs beside the list request
ListBodies ==
  { MkBody(RouteA, Mar31, "PENDING", NoId, NoUser),
    MkBody(RouteB, Apr01, "COMPLETED", NoId, NoUser) }

\* the bodies of the serialized creations: no id, one body per date
SerialBodies ==
  { MkBody(RouteA, d, "PENDING", NoId, NoUser) : d \in {Mar31, Apr01, Apr02} }

\* the monetary paths of transportBillData
MoneyFields == { "bill", "handleCharges", "detention", "freight", "total" }

\* the bodies of the requests that write amounts: two with no amount below
\* zero, and one for each monetary path with that amount below zero
BillBodies ==
  { MkBody(rt, Apr01, "PENDING", NoId, NoUser) : rt \in {RouteA, RouteB} }
    \cup { MkBody([RouteA EXCEPT ![f] = -5], Apr01, "PENDING", NoId, NoUser) :
             f \in MoneyFields }

NoBody == [none |-> TRUE]

\* a query parameter that the request does not carry (undefined)
Absent == << "undefined" >>

\* the greatest number isInt is given no upper limit by
NoMax == 2000000000

MkQuery(page, limit, search, status, from, to) ==
  [page |-> page, limit |-> limit, search |-> search, status |-> status,
   from |-> from, to |-> to]

\* the query strings (req.query) of the list request
Queries ==
  { MkQuery(Absent, Absent, << >>, "", << >>, << >>),
    MkQuery(<< "1" >>, << "1" >>, << "o", "O" >>, "PENDING", << "g" >>, << >>),
    MkQuery(<< "2" >>, << "1" >>, << >>, "", << >>, << "t", "Y" >>),
    MkQuery(<< "0" >>, << "1", "0" >>, << >>, "", << >>, << >>) }

\* page and limit values of the list requests on a store that is not
\* written to: values the validator lets through and values it does not
GoodPages == { Absent, << "1" >>, << "2" >>, << "3" >>, << "4" >>, << "+", "2" >>,
               << "0", "2" >> }
BadPages == { << "0" >>, << "-", "1" >>, << "1", ".", "5" >>, << >>, << "2", "x" >>,
              << " ", "2" >> }
GoodLimits == { Absent, << "1", "0" >>, << "5", "0", "0", "0" >> }
BadLimits == { << "0" >>, << "-", "5" >>, << "5", "0", "0", "1" >>, << "1", "e", "1" >> }

PageQueries ==
  { MkQuery(p, l, << >>, "", << >>, << >>) :
      p \in GoodPages \cup BadPages, l \in GoodLimits \cup BadLimits }

\* the limits a client reads the whole list with
WalkLimits == { Absent, << "1" >>, << "2" >> }

NoQuery == [none |-> TRUE]

\* req.params.id: an internal id, or a string that is no ObjectId
BadParam == 0
Params == (1..MaxEntries) \cup {BadParam}

\* validateTransportEntry: the express-validator chain of POST and PUT
ValidBody(b) ==
  /\ b.vehicleNo # << >> /\ Len(b.vehicleNo) <= 20
  /\ b.from # << >> /\ Len(b.from) <= 100
  /\ b.to # << >> /\ Len(b.to) <= 100
  /\ b.total >= 0
  /\ b.status \in Statuses

\* the validators of the schema's billing paths a save or an update with
\* runValidators runs: min 0 on handleCharges, detention, freight and total
\* (bill has a type and a default only)
SchemaValid(b) ==
  b.handleCharges >= 0 /\ b.detention >= 0 /\ b.freight >= 0 /\ b.total >= 0

\* ------------------------------------------------------------------- state
VARIABLES
  entries,   \* the transportentries collection: a set of documents
  nextOid,   \* the next internal _id the store assigns
  now,       \* the clock: the latest createdAt stamped
  req,       \* the request handlers, each at one of its awaits
  allocLog,  \* history: for each inserted _id, what its pre-save hook read
  fyIn,      \* getFinancialYear on its own: the date given
  fyOut,     \* getFinancialYear on its own: the label returned
  walk,      \* a client that reads the list page by page: what it has read
  users,     \* the users collection: a set of documents
  resets,    \* the passwordresets collection: a set of documents
  resetLog,  \* history: the reset requests that reported success
  caught,    \* an error at the boundary, and the response made of it
  retired,   \* history: the business ids of the entries that were deleted
  mail       \* EmailService: the call of sendEmail in progress

storeVars == << entries, nextOid, now, allocLog, retired >>
fyVars == << fyIn, fyOut >>
\* the state outside the transport entries and their requests
restVars == << walk, users, resets, resetLog, caught, mail >>
\* the same without the client of the list
sideVars == << users, resets, resetLog, caught, mail >>
otherVars == << fyVars, restVars >>
vars == << entries, nextOid, now, req, allocLog, retired, fyIn, fyOut, restVars >>

\* no page of the list has been asked for
NoWalk == [state |-> "none", caller |-> "u1", limit |-> Absent, page |-> 1,
           seen |-> << >>]

\* the handlers that can be in flight at the same time
Reqs == {"r1", "r2"}

NoData == [kind |-> "none"]

IdleReq == [op |-> "none", pc |-> "idle", caller |-> "u1", param |-> BadParam,
            body |-> NoBody, query |-> NoQuery, lastEntry |-> NoId, newId |-> NoId,
            status |-> 0, err |-> "none", data |-> NoData]

\* no response is on its way out: the next store operation can be taken
Quiet == \A r \in Reqs : req[r].pc # "done"

AllIdle == \A r \in Reqs : req[r].pc = "idle"

\* res.status(code).json(...) of a handler
Respond(rec, code, err, data) ==
  [rec EXCEPT !.pc = "done", !.status = code, !.err = err, !.data = data]

\* the response has been sent and the handler has returned
Ack(r) ==
  /\ req[r].pc = "done"
  /\ req' = [req EXCEPT ![r] = IdleReq]
  /\ UNCHANGED << storeVars, otherVars >>

\* ------------------------------------------------------------------- store
\* the collection without its unique index
DuplicateKeyNoIndex(es, oid, id) == FALSE

\* the unique index on id: the write is refused when the id is already held
\* by another document
DuplicateKey(es, oid, id) == \E e \in es : e.oid # oid /\ e.id = id

\* the lookup of the last entry with a regex that leaves the year out
FindLastAnyYear(es, fy) ==
  LET match == { e \in es : StartsWith(e.id, << "T", "E", "-", "F", "Y" >>) }
  IN IF match = {} THEN NoId
     ELSE (CHOOSE e \in match : \A o \in match : o.id = e.id \/ StrLess(o.id, e.id)).id

\* findOne({ id: { $regex: `^TE-FY${fy}-` } }).sort({ id: -1 })
FindLast(es, fy) ==
  LET match == { e \in es : StartsWith(e.id, IdPrefix(fy)) }
  IN IF match = {} THEN NoId
     ELSE (CHOOSE e \in match : \A o \in match : o.id = e.id \/ StrLess(o.id, e.id)).id

\* the body of the pre('save') hook, given the document findOne returned
NextId(date, lastEntry) ==
  LET financialYear == getFinancialYear(date)
      prefix == IdPrefix(financialYear)
      lastSequence == ParseInt(LastPart(lastEntry))
      sequence == IF lastEntry # NoId /\ lastSequence # NaN
                    THEN lastSequence + 1 ELSE 1
  IN prefix \o PadStart(ToStr(sequence))

\* a document in a response body, by the fields the properties read
Doc(e) == [kind |-> "entry", oid |-> e.oid, id |-> e.id, userId |-> e.userId]

\* the document built with the body spread after the caller's id
NewEntryBodyLast(oid, id, b, caller, at) ==
  [oid |-> oid, id |-> id, userId |-> IF b.userId # NoUser THEN b.userId ELSE caller,
   vehicleNo |-> ToUpper(b.vehicleNo), from |-> b.from, to |-> b.to,
   invoiceNo |-> b.invoiceNo, owner |-> b.owner, bill |-> b.bill,
   handleCharges |-> b.handleCharges, detention |-> b.detention,
   freight |-> b.freight, total |-> b.total,
   status |-> b.status, createdAt |-> at]

\* the document TransportEntry.create builds from entryData
\* ({ ...req.body, userId: req.user._id })
NewEntry(oid, id, b, caller, at) ==
  [oid |-> oid, id |-> id, userId |-> caller,
   vehicleNo |-> ToUpper(b.vehicleNo), from |-> b.from, to |-> b.to,
   invoiceNo |-> b.invoiceNo, owner |-> b.owner, bill |-> b.bill,
   handleCharges |-> b.handleCharges, detention |-> b.detention,
   freight |-> b.freight, total |-> b.total,
   status |-> b.status, createdAt |-> at]

\* an insert that answers a duplicate key by allocating again
InsertWithRetry(r, rec) ==
  IF DuplicateKey(entries, nextOid, rec.newId)
    THEN LET last == FindLast(entries, getFinancialYear(rec.body.date))
         IN /\ req' = [req EXCEPT ![r] =
                 [rec EXCEPT !.pc = "save", !.lastEntry = last,
                             !.newId = NextId(rec.body.date, last)]]
            /\ UNCHANGED storeVars
    ELSE \E at \in {now, now + 1} :
           LET e == NewEntry(nextOid, rec.newId, rec.body, rec.caller, at)
           IN /\ entries' = entries \cup {e}
              /\ nextOid' = nextOid + 1
              /\ now' = at
              /\ allocLog' = allocLog \cup
                   { [oid |-> nextOid, allocated |-> rec.body.id = NoId,
                      date |-> rec.body.date, lastEntry |-> rec.lastEntry] }
              /\ retired' = retired
              /\ req' = [req EXCEPT ![r] = Respond(rec, 201, "none", Doc(e))]

\* the insert of the document save() issues after the hooks; createdAt is
\* the millisecond of the latest stamp or a later one
Insert(r, rec) ==
  IF DuplicateKey(entries, nextOid, rec.newId)
    THEN /\ req' = [req EXCEPT ![r] = Respond(rec, 500, "E11000", NoData)]
         /\ UNCHANGED storeVars
    ELSE \E at \in {now, now + 1} :
           LET e == NewEntry(nextOid, rec.newId, rec.body, rec.caller, at)
           IN /\ entries' = entries \cup {e}
              /\ nextOid' = nextOid + 1
              /\ now' = at
              /\ allocLog' = allocLog \cup
                   { [oid |-> nextOid, allocated |-> rec.body.id = NoId,
                      date |-> rec.body.date, lastEntry |-> rec.lastEntry] }
              /\ retired' = retired
              /\ req' = [req EXCEPT ![r] = Respond(rec, 201, "none", Doc(e))]

\* ----------------------------------------------------------- POST / (create)
\* router.post('/'): validation, then TransportEntry.create: the document's
\* own validation, and on to the await of the pre-save hook (no id given) or
\* to the insert (id given)
PostStart(r, u, b) ==
  /\ Quiet
  /\ req[r].pc = "idle"
  /\ LET rec == [IdleReq EXCEPT !.op = "POST", !.caller = u, !.body = b]
     IN IF ~ValidBody(b)
          THEN /\ req' = [req EXCEPT ![r] = Respond(rec, 400, "Validation failed", NoData)]
               /\ UNCHANGED storeVars
          ELSE IF ~SchemaValid(b)
            THEN /\ req' = [req EXCEPT ![r] = Respond(rec, 400, "ValidationError", NoData)]
                 /\ UNCHANGED storeVars
          ELSE IF b.id # NoId
            THEN Insert(r, [rec EXCEPT !.newId = b.id])
            ELSE LET last == FindLast(entries, getFinancialYear(b.date))
                 IN /\ req' = [req EXCEPT ![r] =
                         [rec EXCEPT !.pc = "save", !.lastEntry = last,
                                     !.newId = NextId(b.date, last)]]
                    /\ UNCHANGED storeVars
  /\ UNCHANGED otherVars

\* the rest of the pre-save hook's document: the insert, and the response
PostSave(r) ==
  /\ Quiet
  /\ req[r].pc = "save"
  /\ Insert(r, req[r])
  /\ UNCHANGED otherVars

\* ------------------------------------------------- GET /:id (read one)
\* the lookup without the owner in its filter
FindAnyOwner(es, id, caller) == { e \in es : e.oid = id }

\* findOne({ _id: id, userId: caller }): "CastError" for a malformed id,
\* otherwise the set of the documents found (empty or a singleton)
FindOwned(es, id, caller) == { e \in es : e.oid = id /\ e.userId = caller }

\* findById*(id, ...): the document with this _id, whoever owns it
FindById(es, id) == { e \in es : e.oid = id }

\* router.get('/:id')
GetOne(r, u, id) ==
  /\ Quiet
  /\ req[r].pc = "idle"
  /\ LET rec == [IdleReq EXCEPT !.op = "GET", !.caller = u, !.param = id]
         found == FindOwned(entries, id, u)
     IN req' = [req EXCEPT ![r] =
          IF id = BadParam THEN Respond(rec, 400, "CastError", NoData)
          ELSE IF found = {} THEN Respond(rec, 404, "none", NoData)
          ELSE Respond(rec, 200, "none", Doc(CHOOSE e \in found : TRUE))]
  /\ UNCHANGED << storeVars, otherVars >>

\* ------------------------------------------------------ PUT /:id (update)
\* the update document findByIdAndUpdate applies: $set of the body's fields
ApplyUpdate(e, b) ==
  [e EXCEPT !.vehicleNo = ToUpper(b.vehicleNo), !.from = b.from, !.to = b.to,
            !.invoiceNo = b.invoiceNo, !.owner = b.owner, !.status = b.status,
            !.bill = b.bill, !.handleCharges = b.handleCharges,
            !.detention = b.detention, !.freight = b.freight, !.total = b.total,
            !.id = IF b.id # NoId THEN b.id ELSE @,
            !.userId = IF b.userId # NoUser THEN b.userId ELSE @]

\* router.put('/:id') up to its first await: validation and the lookup
PutStart(r, u, id, b) ==
  /\ Quiet
  /\ req[r].pc = "idle"
  /\ LET rec == [IdleReq EXCEPT !.op = "PUT", !.caller = u, !.param = id, !.body = b]
     IN req' = [req EXCEPT ![r] =
          IF ~ValidBody(b) THEN Respond(rec, 400, "Validation failed", NoData)
          ELSE IF id = BadParam THEN Respond(rec, 400, "CastError", NoData)
          ELSE IF FindOwned(entries, id, u) = {} THEN Respond(rec, 404, "none", NoData)
          ELSE [rec EXCEPT !.pc = "update"]]
  /\ UNCHANGED << storeVars, otherVars >>

\* router.put('/:id') from findByIdAndUpdate (whose update validators run
\* before the store is asked) to the response
PutUpdate(r) ==
  /\ Quiet
  /\ req[r].pc = "update"
  /\ LET rec == req[r]
         found == FindById(entries, rec.param)
     IN IF ~SchemaValid(rec.body)
          THEN /\ req' = [req EXCEPT ![r] = Respond(rec, 400, "ValidationError", NoData)]
               /\ UNCHANGED storeVars
        ELSE IF found = {}
          THEN /\ req' = [req EXCEPT ![r] = Respond(rec, 200, "none", [kind |-> "null"])]
               /\ UNCHANGED storeVars
          ELSE LET e == CHOOSE x \in found : TRUE
                   upd == ApplyUpdate(e, rec.body)
               IN IF DuplicateKey(entries, e.oid, upd.id)
                    THEN /\ req' = [req EXCEPT ![r] = Respond(rec, 500, "E11000", NoData)]
                         /\ UNCHANGED storeVars
                    ELSE /\ entries' = (entries \ {e}) \cup {upd}
                         /\ req' = [req EXCEPT ![r] = Respond(rec, 200, "none", Doc(upd))]
                         /\ UNCHANGED << nextOid, now, allocLog, retired >>
  /\ UNCHANGED otherVars

\* --------------------------------------------------- DELETE /:id (delete)
\* router.delete('/:id') up to its first await: the lookup
DeleteStart(r, u, id) ==
  /\ Quiet
  /\ req[r].pc = "idle"
  /\ LET rec == [IdleReq EXCEPT !.op = "DELETE", !.caller = u, !.param = id]
     IN req' = [req EXCEPT ![r] =
          IF id = BadParam THEN Respond(rec, 400, "CastError", NoData)
          ELSE IF FindOwned(entries, id, u) = {} THEN Respond(rec, 404, "none", NoData)
          ELSE [rec EXCEPT !.pc = "delete"]]
  /\ UNCHANGED << storeVars, otherVars >>

\* router.delete('/:id') from findByIdAndDelete to the response
DeleteRemove(r) ==
  /\ Quiet
  /\ req[r].pc = "delete"
  /\ entries' = entries \ FindById(entries, req[r].param)
  /\ allocLog' = { l \in allocLog : l.oid # req[r].param }
  /\ retired' = retired \cup { e.id : e \in FindById(entries, req[r].param) }
  /\ req' = [req EXCEPT ![r] = Respond(req[r], 200, "none", NoData)]
  /\ UNCHANGED << nextOid, now, otherVars >>

\* ------------------------------------------------------------ GET / (list)
\* the validator without the upper limit of limit
ValidQueryNoMax(q) ==
  /\ q.page = Absent \/ IsInt(q.page, 1, NoMax)
  /\ q.limit = Absent \/ IsInt(q.limit, 1, NoMax)
  /\ Len(q.search) <= 100

\* validateQuery: page an integer >= 1, limit an integer in 1..5000
ValidQuery(q) ==
  /\ q.page = Absent \/ IsInt(q.page, 1, NoMax)
  /\ q.limit = Absent \/ IsInt(q.limit, 1, 5000)
  /\ Len(q.search) <= 100

\* parseInt(v) || dflt: NaN (also of undefined) and 0 give the default
OrDefault(v, dflt) ==
  LET n == IF v = Absent THEN NaN ELSE ParseInt(v)
  IN IF n = NaN \/ n = 0 THEN dflt ELSE n

\* parseInt(req.query.page) || 1 and parseInt(req.query.limit) || 10
PageOf(q) == OrDefault(q.page, 1)
LimitOf(q) == OrDefault(q.limit, 10)

\* the filter document without the owner
MatchesAnyOwner(e, caller, q) ==
  /\ q.search # << >> =>
       \/ RegexI(e.id, q.search)
       \/ RegexI(e.vehicleNo, q.search)
       \/ RegexI(e.from, q.search)
       \/ RegexI(e.to, q.search)
       \/ RegexI(e.invoiceNo, q.search)
       \/ RegexI(e.owner, q.search)
  /\ q.status # "" => e.status = q.status
  /\ q.from # << >> => RegexI(e.from, q.from)
  /\ q.to # << >> => RegexI(e.to, q.to)

\* the filter document the handler builds, as a predicate on documents
Matches(e, caller, q) ==
  /\ e.userId = caller
  /\ q.search # << >> =>
       \/ RegexI(e.id, q.search)
       \/ RegexI(e.vehicleNo, q.search)
       \/ RegexI(e.from, q.search)
       \/ RegexI(e.to, q.search)
       \/ RegexI(e.invoiceNo, q.search)
       \/ RegexI(e.owner, q.search)
  /\ q.status # "" => e.status = q.status
  /\ q.from # << >> => RegexI(e.from, q.from)
  /\ q.to # << >> => RegexI(e.to, q.to)

\* the orders sort({ createdAt: -1 }) can deliver a set of documents in
\* (documents of equal createdAt come in any order: the sort names no
\* second key)
RECURSIVE SortedByCreatedAt(_)
SortedByCreatedAt(m) ==
  IF m = {} THEN { << >> }
  ELSE LET newest == { e \in m : \A o \in m : o.createdAt <= e.createdAt }
       IN UNION { { << e >> \o s : s \in SortedByCreatedAt(m \ {e}) } : e \in newest }

\* a skip of one page too many
SkipLimitNextPage(s, skip, limit) ==
  IF skip + limit >= Len(s) THEN << >>
  ELSE SubSeq(s, skip + limit + 1,
              IF skip + 2 * limit <= Len(s) THEN skip + 2 * limit ELSE Len(s))

\* .skip(skip).limit(limit) on a sorted result
SkipLimit(s, skip, limit) ==
  IF skip >= Len(s) THEN << >>
  ELSE SubSeq(s, skip + 1, IF skip + limit <= Len(s) THEN skip + limit ELSE Len(s))

\* the quotient rounded down
CeilAsFloor(total, limit) == total \div limit

\* Math.ceil(total / limit)
Ceil(total, limit) == (total + limit - 1) \div limit

\* router.get('/') up to the await of find: validation and the page query
ListFind(r, u, q) ==
  /\ Quiet
  /\ req[r].pc = "idle"
  /\ LET rec == [IdleReq EXCEPT !.op = "LIST", !.caller = u, !.query = q]
     IN IF ~ValidQuery(q)
          THEN req' = [req EXCEPT ![r] = Respond(rec, 400, "Validation failed", NoData)]
          ELSE \E s \in SortedByCreatedAt({ e \in entries : Matches(e, u, q) }) :
                 LET page == SkipLimit(s, (PageOf(q) - 1) * LimitOf(q), LimitOf(q))
                 IN req' = [req EXCEPT ![r] =
                      [rec EXCEPT !.pc = "count",
                         !.data = [kind |-> "list",
                                   entries |-> [i \in DOMAIN page |-> Doc(page[i])]]]]
  /\ UNCHANGED << storeVars, otherVars >>

\* router.get('/') from countDocuments to the response
ListCount(r) ==
  /\ Quiet
  /\ req[r].pc = "count"
  /\ LET rec == req[r]
         counted == { e \in entries : Matches(e, rec.caller, rec.query) }
         total == Cardinality(counted)
         page == PageOf(rec.query)
         limit == LimitOf(rec.query)
         pages == Ceil(total, limit)
     IN req' = [req EXCEPT ![r] = Respond(rec, 200, "none",
          [kind |-> "list", entries |-> rec.data.entries,
           total |-> total, page |-> page, pages |-> pages, limit |-> limit,
           hasNext |-> page < pages, hasPrev |-> page > 1,
           countedOwners |-> { e.userId : e \in counted }])]
  /\ UNCHANGED << storeVars, otherVars >>

\* ------------------------------------------ GET /stats/summary (statistics)
\* seven days, in the milliseconds of the clock
SevenDays == 604800000

\* a $match stage that leaves the owner out
StatsMatchAnyOwner(es, u) == es

\* { userId } as filter of countDocuments and as $match stage
StatsMatch(es, u) == { e \in es : e.userId = u }

\* { $group: { _id: '$transportBillData.status', count: { $sum: 1 } } }:
\* one document for each status that occurs
GroupByStatus(docs) ==
  { [_id |-> st, count |-> Cardinality({ e \in docs : e.status = st })] :
      st \in { e.status : e \in docs } }

RECURSIVE SumTotal(_)
SumTotal(docs) ==
  IF docs = {} THEN 0
  ELSE LET e == CHOOSE x \in docs : TRUE
       IN e.total + SumTotal(docs \ {e})

\* { $group: { _id: null, total: { $sum: '$transportBillData.total' } } }:
\* one document, none if there is no input
GroupTotal(docs) ==
  IF docs = {} THEN << >> ELSE << [_id |-> "null", total |-> SumTotal(docs)] >>

\* totalAmount[0]?.total || 0
TotalAmountOf(agg) ==
  IF agg = << >> THEN 0 ELSE IF agg[1].total = 0 THEN 0 ELSE agg[1].total

\* router.get('/stats/summary') up to the await of countDocuments
StatsCount(r, u) ==
  /\ Quiet
  /\ req[r].pc = "idle"
  /\ req' = [req EXCEPT ![r] =
       [IdleReq EXCEPT !.op = "STATS", !.caller = u, !.pc = "group",
          !.data = [kind |-> "stats",
                    totalEntries |-> Cardinality(StatsMatch(entries, u)),
                    statusBreakdown |-> {}, totalAmount |-> 0,
                    recentEntries |-> 0]]]
  /\ UNCHANGED << storeVars, otherVars >>

\* ... from there to the await of the first aggregate
StatsGroup(r) ==
  /\ Quiet
  /\ req[r].pc = "group"
  /\ req' = [req EXCEPT ![r].pc = "sum",
       ![r].data.statusBreakdown = GroupByStatus(StatsMatch(entries, req[r].caller))]
  /\ UNCHANGED << storeVars, otherVars >>

\* ... to the await of the second aggregate
StatsSum(r) ==
  /\ Quiet
  /\ req[r].pc = "sum"
  /\ req' = [req EXCEPT ![r].pc = "recent",
       ![r].data.totalAmount =
          TotalAmountOf(GroupTotal(StatsMatch(entries, req[r].caller)))]
  /\ UNCHANGED << storeVars, otherVars >>

\* ... to the count of the entries of the last seven days, and the response
StatsRecent(r) ==
  /\ Quiet
  /\ req[r].pc = "recent"
  /\ LET sevenDaysAgo == now - SevenDays
         recent == { e \in StatsMatch(entries, req[r].caller) :
                       e.createdAt >= sevenDaysAgo }
     IN req' = [req EXCEPT ![r] =
          Respond(req[r], 200, "none",
                  [req[r].data EXCEPT !.recentEntries = Cardinality(recent)])]
  /\ UNCHANGED << storeVars, otherVars >>

\* ------------------------------------------------------------------ users
\* the length of an ObjectId written in hexadecimal
ObjectIdLen == 24

LowerOf == [ c \in {"A", "B", "C", "D", "E", "F"} |->
             CASE c = "A" -> "a" [] c = "B" -> "b" [] c = "C" -> "c"
               [] c = "D" -> "d" [] c = "E" -> "e" [] c = "F" -> "f" ]

IsHex(c) == IsDigit(c) \/ c \in DOMAIN LowerOf \/ c \in {"a", "b", "c", "d", "e", "f"}

\* a string that casts to an ObjectId: 24 hexadecimal digits of either case
IsObjectId(s) == Len(s) = ObjectIdLen /\ \A i \in 1..Len(s) : IsHex(s[i])

\* ObjectId(s).toString(): the hexadecimal digits in lower case
HexString(s) == [ i \in 1..Len(s) |-> IF s[i] \in DOMAIN LowerOf THEN LowerOf[s[i]] ELSE s[i] ]

\* the _id that starts with the two given digits, as toString() gives it
Hex24(c1, c2) == << c1, c2 >> \o [ i \in 1..(ObjectIdLen - 2) |-> "0" ]

AdminId == Hex24("a", "1")
MemberId == Hex24("e", "2")
NobodyId == Hex24("f", "3")

\* the accounts that tokens are presented for
AccountIds == { AdminId, MemberId }

\* req.params.id of the user routes: the ids as toString() gives them, an
\* id written in upper case, an id no user has, and a string that is no id
UserParams == { AdminId, MemberId, ToUpper(AdminId), NobodyId, << "s", "t", "a", "t", "s" >> }

Kay == << "K", "a", "y" >>
Tom == << "T", "o", "m" >>

\* String.prototype.toLowerCase, character by character
ToLower(s) ==
  [ i \in 1..Len(s) |->
      IF \E c \in DOMAIN UpperOf : UpperOf[c] = s[i]
        THEN CHOOSE c \in DOMAIN UpperOf : UpperOf[c] = s[i]
        ELSE s[i] ]

\* the part of the accounts' email addresses after the name
MailDomain == << "@", "x", ".", "i", "n" >>

MkUser(id, role, name) ==
  [id |-> id, role |-> role, isActive |-> TRUE, ownerName |-> name,
   bankName |-> << "A", "E" >>, email |-> ToLower(name) \o MailDomain,
   password |-> [hashOf |-> name]]

\* the users collection at the start: an admin and a user
InitUsers == { MkUser(AdminId, "admin", Kay), MkUser(MemberId, "user", Tom) }

\* req.body of the user routes: the fields the body carries, and their values
MkUserBody(keys, name, bank, role, active) ==
  [keys |-> keys, ownerName |-> name, bankName |-> bank, role |-> role,
   isActive |-> active]

UserBodies ==
  { MkUserBody({"role", "isActive"}, << >>, << >>, "admin", FALSE),
    MkUserBody({"ownerName", "bankName", "role"}, << "M", "o" >>, << "K", "A" >>, "user", TRUE),
    MkUserBody({"ownerName", "bankName"}, << " " >>, << " " >>, "user", TRUE),
    MkUserBody({"role"}, << >>, << >>, "root", TRUE) }

\* trim(): blanks at both ends removed
RECURSIVE TrimStart(_)
TrimStart(s) == IF s # << >> /\ s[1] = " " THEN TrimStart(Tail(s)) ELSE s

RECURSIVE TrimEnd(_)
TrimEnd(s) == IF s # << >> /\ s[Len(s)] = " " THEN TrimEnd(SubSeq(s, 1, Len(s) - 1)) ELSE s

Trim(s) == TrimEnd(TrimStart(s))

\* the validator chains of the three update routes
ValidUserBody(b) ==
  /\ "ownerName" \in b.keys => (Len(Trim(b.ownerName)) >= 1 /\ Len(Trim(b.ownerName)) <= 100)
  /\ "role" \in b.keys => b.role \in {"user", "admin"}

ValidProfileBody(b) ==
  "ownerName" \in b.keys => (Len(Trim(b.ownerName)) >= 1 /\ Len(Trim(b.ownerName)) <= 100)

ValidBankBody(b) ==
  "bankName" \in b.keys => (Len(Trim(b.bankName)) >= 1 /\ Len(Trim(b.bankName)) <= 100)

\* protect: the token names a user that exists and is active; req.user is
\* that user
Authenticated(c) == \E u \in users : u.id = c /\ u.isActive

ReqUser(c) == CHOOSE u \in users : u.id = c

\* a test that lets every caller through
NotAuthorizedNever(c, p) == FALSE

\* req.user.role !== 'admin' && req.user._id.toString() !== userId
NotAuthorized(c, p) == ReqUser(c).role # "admin" /\ c # p

\* req.user._id.toString() === userId
IsSelf(c, p) == c = p

\* findById(p) and its kin: the document whose _id the string casts to
UserById(p) == { u \in users : u.id = HexString(p) }

\* the update with role and isActive taken from the body of any caller
UpdateDataAnyCaller(op, u, caller, b) ==
  CASE op = "USER_PUT" ->
         [u EXCEPT
            !.ownerName = IF "ownerName" \in b.keys THEN Trim(b.ownerName) ELSE @,
            !.bankName = IF "bankName" \in b.keys THEN Trim(b.bankName) ELSE @,
            !.role = IF "role" \in b.keys THEN b.role ELSE @,
            !.isActive = IF "isActive" \in b.keys THEN b.isActive ELSE @]
    [] op = "PROFILE_PUT" ->
         [u EXCEPT !.ownerName = IF "ownerName" \in b.keys THEN Trim(b.ownerName) ELSE @]
    [] op = "BANK_PUT" ->
         [u EXCEPT !.bankName = IF "bankName" \in b.keys THEN Trim(b.bankName) ELSE @]
    [] OTHER -> u

\* what each handler writes to the user it found: updateData of PUT /:id
\* (role and isActive for admins only), the profile keys of PUT /:id/profile,
\* the bank keys of PUT /:id/bank; GET /:id writes nothing
UpdateData(op, u, caller, b) ==
  CASE op = "USER_PUT" ->
         [u EXCEPT
            !.ownerName = IF "ownerName" \in b.keys THEN Trim(b.ownerName) ELSE @,
            !.bankName = IF "bankName" \in b.keys THEN Trim(b.bankName) ELSE @,
            !.role = IF caller.role = "admin" /\ "role" \in b.keys THEN b.role ELSE @,
            !.isActive = IF caller.role = "admin" /\ "isActive" \in b.keys
                           THEN b.isActive ELSE @]
    [] op = "PROFILE_PUT" ->
         [u EXCEPT !.ownerName = IF "ownerName" \in b.keys THEN Trim(b.ownerName) ELSE @]
    [] op = "BANK_PUT" ->
         [u EXCEPT !.bankName = IF "bankName" \in b.keys THEN Trim(b.bankName) ELSE @]
    [] OTHER -> u

\* the answer of a user route after protect: 400 for a body the validators
\* reject (valid says whether they do), 403 for a caller that is neither
\* admin nor the user named, then the store operation with its CastError,
\* its miss and its result
UserRoute(op, c, p, b, valid) ==
  /\ Quiet
  /\ AllIdle
  /\ LET rec == [IdleReq EXCEPT !.op = op, !.caller = c, !.param = p, !.body = b]
         Answer(code, err, data) == req' = [req EXCEPT !["r1"] = Respond(rec, code, err, data)]
     IN IF ~Authenticated(c)
          THEN Answer(401, "Not authorized", NoData) /\ users' = users
        ELSE IF ~valid
          THEN Answer(400, "Validation failed", NoData) /\ users' = users
        ELSE IF NotAuthorized(c, p)
          THEN Answer(403, "Not authorized", NoData) /\ users' = users
        ELSE IF ~IsObjectId(p)
          THEN Answer(400, "CastError", NoData) /\ users' = users
        ELSE IF UserById(p) = {}
          THEN Answer(404, "User not found", NoData) /\ users' = users
        ELSE LET u == CHOOSE x \in UserById(p) : TRUE
                 upd == UpdateData(op, u, ReqUser(c), b)
             IN /\ users' = (users \ {u}) \cup {upd}
                /\ Answer(200, "none", [kind |-> "user", id |-> upd.id])
  /\ UNCHANGED << storeVars, fyVars, walk, resets, resetLog, caught, mail >>

\* router.get('/:id')
UserGet(c, p) == UserRoute("USER_GET", c, p, NoBody, TRUE)

\* router.put('/:id')
UserPut(c, p, b) == UserRoute("USER_PUT", c, p, b, ValidUserBody(b))

\* router.put('/:id/profile'): the keys the profile has no path for are
\* dropped by the schema
ProfilePut(c, p, b) == UserRoute("PROFILE_PUT", c, p, b, ValidProfileBody(b))

\* router.put('/:id/bank')
BankPut(c, p, b) == UserRoute("BANK_PUT", c, p, b, ValidBankBody(b))

\* router.delete('/:id'), after protect and authorize('admin')
UserDelete(c, p) ==
  /\ Quiet
  /\ AllIdle
  /\ LET rec == [IdleReq EXCEPT !.op = "USER_DELETE", !.caller = c, !.param = p]
         Answer(code, err, data) == req' = [req EXCEPT !["r1"] = Respond(rec, code, err, data)]
     IN IF ~Authenticated(c)
          THEN Answer(401, "Not authorized", NoData) /\ users' = users
        ELSE IF ReqUser(c).role # "admin"
          THEN Answer(403, "Not authorized", NoData) /\ users' = users
        ELSE IF IsSelf(c, p)
          THEN Answer(400, "Cannot delete your own account", NoData) /\ users' = users
        ELSE IF ~IsObjectId(p)
          THEN Answer(400, "CastError", NoData) /\ users' = users
        ELSE IF UserById(p) = {}
          THEN Answer(404, "User not found", NoData) /\ users' = users
        ELSE /\ users' = users \ UserById(p)
             /\ Answer(200, "none", [kind |-> "user", id |-> HexString(p)])
  /\ UNCHANGED << storeVars, fyVars, walk, resets, resetLog, caught, mail >>

\* --------------------------------------------- POST /api/auth/reset-password
\* the time at which the tokens are presented first
ResetStart == 10

MkReset(rid, userId, token, used, expiresAt) ==
  [rid |-> rid, userId |-> userId, token |-> token, used |-> used,
   expiresAt |-> expiresAt]

\* the passwordresets collection as the requests find it (its records are
\* written where the reset links are issued): two tokens of one user that
\* can be used, one of them about to expire, a used one and an expired one
InitResets ==
  { MkReset(1, MemberId, "t1", FALSE, ResetStart + 5),
    MkReset(2, MemberId, "t2", FALSE, ResetStart + 1),
    MkReset(3, MemberId, "t3", TRUE, ResetStart + 5),
    MkReset(4, AdminId, "t4", FALSE, ResetStart - 5) }

\* req.body.token and req.body.password
Tokens == { "t1", "t2", "t3", "t4", "tx", "" }
Passwords == { << "s", "e", "c", "r", "e", "t" >>,
               << "h", "u", "n", "t", "e", "r", "2" >>,
               << "a", "b", "c" >> }

\* the validator chain of reset-password
ValidReset(t, pw) == t # "" /\ Len(pw) >= 6

\* findValidToken: findOne({ token, used: false, expiresAt: { $gt: new Date() } })
FindValidToken(t) ==
  { x \in resets : x.token = t /\ ~x.used /\ x.expiresAt > now }

\* the pre-save hook of the user: the password is stored hashed
Hashed(pw) == [hashOf |-> pw]

\* router.post('/reset-password') up to the await of findValidToken
\* (with populate('userId')), and the answers given right after it
ResetFind(r, t, pw) ==
  /\ Quiet
  /\ req[r].pc = "idle"
  /\ LET rec == [IdleReq EXCEPT !.op = "RESET", !.body = [token |-> t, password |-> pw]]
         found == FindValidToken(t)
     IN req' = [req EXCEPT ![r] =
          IF ~ValidReset(t, pw) THEN Respond(rec, 400, "Validation failed", NoData)
          ELSE IF found = {}
            THEN Respond(rec, 400, "Invalid or expired reset token", NoData)
          ELSE LET x == CHOOSE y \in found : TRUE
               IN IF \A u \in users : u.id # x.userId
                    THEN Respond(rec, 400, "User not found", NoData)
                    ELSE [rec EXCEPT !.pc = "saveUser",
                            !.data = [kind |-> "reset", rid |-> x.rid, userId |-> x.userId]]]
  /\ UNCHANGED << storeVars, otherVars >>

\* user.password = password; await user.save()
ResetSaveUser(r) ==
  /\ Quiet
  /\ req[r].pc = "saveUser"
  /\ LET rec == req[r]
     IN IF \A u \in users : u.id # rec.data.userId
          THEN /\ req' = [req EXCEPT ![r] = Respond(rec, 500, "Server error", NoData)]
               /\ users' = users
          ELSE /\ users' = { IF u.id = rec.data.userId
                                THEN [u EXCEPT !.password = Hashed(rec.body.password)]
                                ELSE u : u \in users }
               /\ req' = [req EXCEPT ![r].pc = "markUsed"]
  /\ UNCHANGED << storeVars, fyVars, walk, resets, resetLog, caught, mail >>

\* await resetRecord.markAsUsed(): the save of a record that is gone fails
ResetMarkUsed(r) ==
  /\ Quiet
  /\ req[r].pc = "markUsed"
  /\ LET rec == req[r]
     IN IF \A x \in resets : x.rid # rec.data.rid
          THEN /\ req' = [req EXCEPT ![r] = Respond(rec, 500, "Server error", NoData)]
               /\ resets' = resets
          ELSE /\ resets' = { IF x.rid = rec.data.rid THEN [x EXCEPT !.used = TRUE] ELSE x :
                                x \in resets }
               /\ req' = [req EXCEPT ![r].pc = "purge"]
  /\ UNCHANGED << storeVars, fyVars, walk, users, resetLog, caught, mail >>

\* deleteMany of the user's other records, and the response
ResetPurge(r) ==
  /\ Quiet
  /\ req[r].pc = "purge"
  /\ resets' = { x \in resets :
                   ~(x.userId = req[r].data.userId /\ x.rid # req[r].data.rid) }
  /\ resetLog' = Append(resetLog, req[r].body.token)
  /\ req' = [req EXCEPT ![r] = Respond(req[r], 200, "none", NoData)]
  /\ UNCHANGED << storeVars, fyVars, walk, users, caught, mail >>

\* time passes
ResetTick ==
  /\ Quiet
  /\ now < MaxClock
  /\ now' = now + 1
  /\ UNCHANGED << entries, nextOid, allocLog, retired, req, otherVars >>

\* ------------------------------------------------- errors at the boundary
\* an error object, by the properties the handlers read: name, kind, code,
\* status, message, and whether the message contains 'CORS'
MkError(name, kind, code, status, message, cors) ==
  [name |-> name, kind |-> kind, code |-> code, status |-> status,
   message |-> message, cors |-> cors]

\* the errors the store layer raises, and a plain Error
StoreErrors ==
  { MkError("CastError", "ObjectId", 0, 0, "Cast to ObjectId failed", FALSE),
    MkError("CastError", "Number", 0, 0, "Cast to Number failed", FALSE),
    MkError("MongoServerError", "", 11000, 0, "E11000 duplicate key error", FALSE),
    MkError("ValidationError", "", 0, 0, "Validation failed", FALSE),
    MkError("MongoNetworkError", "", 0, 0, "connection timed out", FALSE),
    MkError("Error", "", 0, 0, "boom", FALSE) }

\* process.env.NODE_ENV
Envs == { "production", "development", "test" }

\* res.statusCode when the error arrives: not set (200), or set by notFound
PresetStatuses == { 200, 404 }

\* a response, by status and error text; stack: whether it carries the
\* stack and the original message
MkResponse(status, text, stack) == [status |-> status, error |-> text, stack |-> stack]

\* the later tests of errorHandler, each overriding the result so far
ErrorHandlerTail(err, env, first) ==
  LET dup == IF err.code = 11000
               THEN [status |-> 400, message |-> "Duplicate field value entered"]
               ELSE first
      val == IF err.name = "ValidationError"
               THEN [status |-> 400, message |-> "validation messages"]
               ELSE dup
      jwt == IF err.name = "JsonWebTokenError"
               THEN [status |-> 401, message |-> "Invalid token"]
               ELSE val
      exp == IF err.name = "TokenExpiredError"
               THEN [status |-> 401, message |-> "Token expired"]
               ELSE jwt
      rate == IF err.status = 429
                THEN [status |-> 429, message |-> "Too many requests, please try again later"]
                ELSE exp
      cors == IF err.cors
                THEN [status |-> 403, message |-> "CORS policy violation"]
                ELSE rate
  IN MkResponse(cors.status,
                IF env = "production" /\ cors.status = 500
                  THEN "Internal server error" ELSE cors.message,
                env = "development")

\* errorHandler(err, req, res, next)
ErrorHandler(err, env, preset) ==
  LET start == [status |-> IF preset = 200 THEN 500 ELSE preset, message |-> err.message]
      cast == IF err.name = "CastError" /\ err.kind = "ObjectId"
                THEN [status |-> 404, message |-> "Resource not found"]
                ELSE start
  IN ErrorHandlerTail(err, env, cast)

\* the catch blocks of the transport-entry routes
CatchList(err) ==
  MkResponse(500, "Server error while fetching transport entries", FALSE)

CatchGetOne(err) ==
  IF err.name = "CastError" THEN MkResponse(400, "Invalid transport entry ID", FALSE)
  ELSE MkResponse(500, "Server error while fetching transport entry", FALSE)

CatchPost(err) ==
  IF err.name = "ValidationError" THEN MkResponse(400, "validation messages", FALSE)
  ELSE MkResponse(500, "Server error while creating transport entry", FALSE)

CatchPut(err) ==
  IF err.name = "CastError" THEN MkResponse(400, "Invalid transport entry ID", FALSE)
  ELSE IF err.name = "ValidationError" THEN MkResponse(400, "validation messages", FALSE)
  ELSE MkResponse(500, "Server error while updating transport entry", FALSE)

CatchDelete(err) ==
  IF err.name = "CastError" THEN MkResponse(400, "Invalid transport entry ID", FALSE)
  ELSE MkResponse(500, "Server error while deleting transport entry", FALSE)

CatchStats(err) ==
  MkResponse(500, "Server error while fetching statistics", FALSE)

\* the places where an error is turned into a response
Boundaries == { "errorHandler", "GET /", "GET /:id", "POST /", "PUT /:id",
                "DELETE /:id", "GET /stats/summary" }

\* an error arrives at one of them
Catch(where, err, env, preset) ==
  /\ caught' = [kind |-> "caught", where |-> where, err |-> err, env |-> env,
                preset |-> preset,
                res |-> CASE where = "errorHandler" -> ErrorHandler(err, env, preset)
                          [] where = "GET /" -> CatchList(err)
                          [] where = "GET /:id" -> CatchGetOne(err)
                          [] where = "POST /" -> CatchPost(err)
                          [] where = "PUT /:id" -> CatchPut(err)
                          [] where = "DELETE /:id" -> CatchDelete(err)
                          [] where = "GET /stats/summary" -> CatchStats(err)]
  /\ UNCHANGED << storeVars, req, fyVars, walk, users, resets, resetLog, mail >>

\* ------------------------------------------ POST /api/auth/forgot-password
\* body('email').isEmail(): one @ with a name before it and, after it, a
\* domain of labels separated by dots, the last of two letters or more
IsEmail(s) ==
  LET ats == { i \in 1..Len(s) : s[i] = "@" }
  IN /\ Cardinality(ats) = 1
     /\ LET at == CHOOSE i \in ats : TRUE
            dots == { i \in (at + 1)..Len(s) : s[i] = "." }
        IN /\ at > 1
           /\ \A i \in 1..Len(s) : s[i] # " "
           /\ dots # {}
           /\ \A i \in dots : i > at + 1 /\ i < Len(s) /\ (i + 1) \notin dots
           /\ \A i \in dots : i <= Len(s) - 2

\* req.body.email: the addresses of the two accounts (one of them in capital
\* letters), an address of no account, and a string that is no address
Emails ==
  { ToLower(Tom) \o MailDomain, ToUpper(Kay) \o MailDomain,
    << "a" >> \o MailDomain, << "g", "o" >> \o MailDomain, << "t", "o", "m" >> }

\* what sendPasswordResetWithNewPassword resolves to: sent (with or without
\* a preview URL), refused because the service is disabled, or failed
MailResults ==
  { [success |-> TRUE, previewUrl |-> TRUE, disabled |-> FALSE],
    [success |-> TRUE, previewUrl |-> FALSE, disabled |-> FALSE],
    [success |-> FALSE, previewUrl |-> FALSE, disabled |-> TRUE],
    [success |-> FALSE, previewUrl |-> FALSE, disabled |-> FALSE] }

\* User.findByEmail(email): findOne({ email: email.toLowerCase() })
FindByEmail(email) == { u \in users : u.email = ToLower(email) }

\* generateMemorablePassword(10)
NewPassword == << "n", "e", "w" >>

\* res.json({ success: true, message, previewUrl? })
MkMessage(message, previewUrl) ==
  [kind |-> "message", message |-> message, previewUrl |-> previewUrl]

\* the body of the 200 answer: for an address of no account, and after the
\* password of the account found was replaced and its mail handed over
ForgotAnswer(found, env, result) ==
  IF found = {}
    THEN MkMessage("If an account with that email exists, we have sent a new password.",
                   FALSE)
    ELSE MkMessage("If an account with that email exists, we have sent a new password to your email.",
                   env = "development" /\ result.previewUrl)

\* router.post('/forgot-password'); env: process.env.NODE_ENV, result: what
\* the mail service resolves to when it is asked
ForgotPassword(r, email, env, result) ==
  /\ req[r].pc = "idle"
  /\ LET rec == [IdleReq EXCEPT !.op = "FORGOT", !.body = [email |-> email]]
         found == FindByEmail(Trim(email))
     IN IF ~IsEmail(email)
          THEN /\ req' = [req EXCEPT ![r] = Respond(rec, 400, "Validation failed", NoData)]
               /\ users' = users
          ELSE /\ users' = { IF u \in found THEN [u EXCEPT !.password = Hashed(NewPassword)]
                                             ELSE u : u \in users }
               /\ req' = [req EXCEPT ![r] =
                     Respond(rec, 200, "none", ForgotAnswer(found, env, result))]
  /\ UNCHANGED << storeVars, fyVars, walk, resets, resetLog, caught, mail >>

\* -------------------------------------------------- EmailService.sendEmail
\* const maxRetries = 3
maxRetries == 3

\* an error transporter.sendMail or the two-minute timer rejects with: its
\* code, and whether its message contains 'timeout'
MkMailError(code, timeout) == [code |-> code, timeout |-> timeout]

NoMailError == MkMailError("none", FALSE)

\* 'Email send timeout after 2 minutes', of the timer the send races with
SendTimeout == MkMailError("undefined", TRUE)

\* the errors a send ends with: connection errors, the timer, and errors of
\* the server's answer
MailErrors ==
  { MkMailError("ETIMEDOUT", FALSE), MkMailError("ECONNREFUSED", FALSE),
    SendTimeout, MkMailError("EAUTH", FALSE), MkMailError("EENVELOPE", FALSE) }

retryableErrors == { "ETIMEDOUT", "ECONNRESET", "ENOTFOUND", "ECONNREFUSED", "EHOSTUNREACH" }

\* the test with the limit included
shouldRetryOnceMore(retryCount, error) ==
  retryCount <= maxRetries /\ (error.code \in retryableErrors \/ error.timeout)

\* const shouldRetry = retryCount < maxRetries && (retryableErrors.includes(
\* error.code) || error.message.includes('timeout'))
shouldRetry(retryCount, error) ==
  retryCount < maxRetries /\ (error.code \in retryableErrors \/ error.timeout)

\* what sendEmail returns
NoResult == [kind |-> "none"]

Sent == [kind |-> "result", success |-> TRUE, error |-> NoMailError, disabled |-> FALSE]

Failed(error, retryCount) ==
  [kind |-> "result", success |-> FALSE, error |-> error, disabled |-> FALSE,
   retryCount |-> retryCount]

Disabled == [kind |-> "result", success |-> FALSE, error |-> NoMailError, disabled |-> TRUE]

\* sendEmail has not been called; isDisabled is set by the constructor
NoMail == [state |-> "idle", isDisabled |-> FALSE, retryCount |-> 0, attempts |-> 0,
           pool |-> TRUE, errors |-> << >>, result |-> NoResult]

\* sendEmail(message, retryCount) up to its await of the send, or to its
\* return when the service is disabled; m: the service and what the call
\* has done so far
Attempt(m, retryCount) ==
  IF m.isDisabled
    THEN [m EXCEPT !.state = "returned", !.retryCount = retryCount, !.result = Disabled]
    ELSE [m EXCEPT !.state = "sending", !.retryCount = retryCount,
                   !.attempts = @ + 1]

\* a caller calls sendEmail(message)
SendEmail ==
  /\ mail.state \in {"idle", "returned"}
  /\ mail' = Attempt([mail EXCEPT !.attempts = 0, !.errors = << >>, !.result = NoResult], 0)
  /\ UNCHANGED << storeVars, req, fyVars, walk, users, resets, resetLog, caught >>

\* the send resolves: the result is returned
SendResolves ==
  /\ mail.state = "sending"
  /\ mail' = [mail EXCEPT !.state = "returned", !.result = Sent]
  /\ UNCHANGED << storeVars, req, fyVars, walk, users, resets, resetLog, caught >>

\* the send, or the timer beside it, rejects: the catch block up to the
\* await of the retry delay, or to its return
SendRejects(error) ==
  /\ mail.state = "sending"
  /\ mail' = IF shouldRetry(mail.retryCount, error)
               THEN [mail EXCEPT !.state = "delay", !.errors = Append(@, error)]
               ELSE [mail EXCEPT !.state = "returned", !.errors = Append(@, error),
                                 !.result = Failed(error, mail.retryCount)]
  /\ UNCHANGED << storeVars, req, fyVars, walk, users, resets, resetLog, caught >>

\* the delay is over: the transporter is made anew without its pool after
\* the second failure, and sendEmail calls itself with retryCount + 1
RetryAfterDelay ==
  /\ mail.state = "delay"
  /\ mail' = Attempt([mail EXCEPT !.pool = IF mail.retryCount = 1 THEN FALSE ELSE @],
                     mail.retryCount + 1)
  /\ UNCHANGED << storeVars, req, fyVars, walk, users, resets, resetLog, caught >>

\* -------------------------------------------------------- specifications
\* nothing has been caught, no page asked for, no token handed out
NoCaught == [kind |-> "none"]

RestInit ==
  /\ walk = NoWalk
  /\ users = InitUsers
  /\ resets = {}
  /\ resetLog = << >>
  /\ caught = NoCaught
  /\ mail = NoMail

Init ==
  /\ entries = {}
  /\ nextOid = 1
  /\ now = 0
  /\ allocLog = {}
  /\ retired = {}
  /\ req = [r \in Reqs |-> IdleReq]
  /\ fyIn = Mar31
  /\ fyOut = << >>
  /\ RestInit

\* the store takes no more than Max inserts in one run: an insert that
\* the unique index would let through waits once Max is reached
Room(Max, id) == nextOid <= Max \/ DuplicateKey(entries, nextOid, id)

PostRoom(Max, b) == (b.id # NoId /\ ValidBody(b)) => Room(Max, b.id)

\* The handlers are interchangeable, so a request is taken by "r2" only
\* while "r1" is busy.  A request answered at its first store operation
\* without a write reads the store alone, and every store that is reached
\* is also reached with no handler in flight (a handler in flight has only
\* read so far): such a request is taken when no other handler is in flight.
Alone(r) ==
  (req'[r].pc = "done" /\ entries' = entries) =>
     \A o \in Reqs \ {r} : req[o].pc = "idle"

Taken(r) == (r = "r2" => req["r1"].pc # "idle") /\ Alone(r)

\* racing writers and readers of single entries
Next ==
  \/ \E r \in Reqs, u \in Users, b \in Bodies :
       PostRoom(MaxEntries, b) /\ PostStart(r, u, b) /\ Taken(r)
  \/ \E r \in Reqs : Room(MaxEntries, req[r].newId) /\ PostSave(r)
  \/ \E r \in Reqs, u \in Users, id \in Params : GetOne(r, u, id) /\ Taken(r)
  \/ \E r \in Reqs, u \in Users, id \in Params, b \in Bodies :
       PutStart(r, u, id, b) /\ Taken(r)
  \/ \E r \in Reqs : PutUpdate(r)
  \/ \E r \in Reqs, u \in Users, id \in Params : DeleteStart(r, u, id) /\ Taken(r)
  \/ \E r \in Reqs : DeleteRemove(r)
  \/ \E r \in Reqs : Ack(r)

Spec == Init /\ [][Next]_vars

\* a list request ("r1") beside one writer ("r2")
NextList ==
  \/ \E u \in Users, q \in Queries : ListFind("r1", u, q) /\ Alone("r1")
  \/ ListCount("r1")
  \/ \E u \in Users, b \in ListBodies :
       PostRoom(MaxEntries, b) /\ PostStart("r2", u, b) /\ Alone("r2")
  \/ Room(MaxEntries, req["r2"].newId) /\ PostSave("r2")
  \/ \E u \in Users, id \in Params : DeleteStart("r2", u, id) /\ Alone("r2")
  \/ DeleteRemove("r2")
  \/ \E r \in Reqs : Ack(r)

SpecList == Init /\ [][NextList]_vars

\* a statistics request ("r1") beside one writer ("r2")
NextStats ==
  \/ \E u \in Users : StatsCount("r1", u)
  \/ StatsGroup("r1")
  \/ StatsSum("r1")
  \/ StatsRecent("r1")
  \/ \E u \in Users, b \in ListBodies :
       PostRoom(MaxEntries, b) /\ PostStart("r2", u, b) /\ Alone("r2")
  \/ Room(MaxEntries, req["r2"].newId) /\ PostSave("r2")
  \/ \E u \in Users, id \in Params : DeleteStart("r2", u, id) /\ Alone("r2")
  \/ DeleteRemove("r2")
  \/ \E r \in Reqs : Ack(r)

SpecStats == Init /\ [][NextStats]_vars

\* creations and updates that carry amounts, one request after the other
NextBill ==
  \/ \E u \in Users, b \in BillBodies : PostRoom(MaxEntries, b) /\ PostStart("r1", u, b)
  \/ Room(MaxEntries, req["r1"].newId) /\ PostSave("r1")
  \/ \E u \in Users, id \in Params, b \in BillBodies : PutStart("r1", u, id, b)
  \/ PutUpdate("r1")
  \/ Ack("r1")

SpecBill == Init /\ [][NextBill]_vars

\* the user routes, one request after the other
NextUsers ==
  \/ \E c \in AccountIds, p \in UserParams : UserGet(c, p)
  \/ \E c \in AccountIds, p \in UserParams, b \in UserBodies : UserPut(c, p, b)
  \/ \E c \in AccountIds, p \in UserParams, b \in UserBodies : ProfilePut(c, p, b)
  \/ \E c \in AccountIds, p \in UserParams, b \in UserBodies : BankPut(c, p, b)
  \/ \E c \in AccountIds, p \in UserParams : UserDelete(c, p)
  \/ Ack("r1")

SpecUsers == Init /\ [][NextUsers]_vars

\* reset tokens presented by two requests at a time
InitAuth ==
  /\ entries = {}
  /\ nextOid = 1
  /\ now = ResetStart
  /\ allocLog = {}
  /\ retired = {}
  /\ req = [r \in Reqs |-> IdleReq]
  /\ fyIn = Mar31
  /\ fyOut = << >>
  /\ walk = NoWalk
  /\ users = InitUsers
  /\ resets = InitResets
  /\ resetLog = << >>
  /\ caught = NoCaught
  /\ mail = NoMail

NextAuth ==
  \/ \E r \in Reqs, t \in Tokens, pw \in Passwords : ResetFind(r, t, pw) /\ Taken(r)
  \/ \E r \in Reqs : ResetSaveUser(r)
  \/ \E r \in Reqs : ResetMarkUsed(r)
  \/ \E r \in Reqs : ResetPurge(r)
  \/ ResetTick
  \/ \E r \in Reqs : Ack(r)

SpecAuth == InitAuth /\ [][NextAuth]_vars

\* requests for a new password, two at a time
NextForgot ==
  \/ \E r \in Reqs, email \in Emails, env \in Envs, result \in MailResults :
       ForgotPassword(r, email, env, result)
  \/ \E r \in Reqs : Ack(r)

SpecForgot == Init /\ [][NextForgot]_vars

\* the mail service, enabled or disabled, called again and again; a send
\* settles (the timer beside it fires after two minutes at the latest) and a
\* retry delay ends
InitMail ==
  /\ entries = {}
  /\ nextOid = 1
  /\ now = 0
  /\ allocLog = {}
  /\ retired = {}
  /\ req = [r \in Reqs |-> IdleReq]
  /\ fyIn = Mar31
  /\ fyOut = << >>
  /\ walk = NoWalk
  /\ users = InitUsers
  /\ resets = {}
  /\ resetLog = << >>
  /\ caught = NoCaught
  /\ \E d \in BOOLEAN : mail = [NoMail EXCEPT !.isDisabled = d]

SendSettles == SendResolves \/ \E error \in MailErrors : SendRejects(error)

NextMail ==
  \/ SendEmail
  \/ SendResolves
  \/ \E error \in MailErrors : SendRejects(error)
  \/ RetryAfterDelay

SpecMail ==
  InitMail /\ [][NextMail]_vars /\ WF_vars(SendSettles) /\ WF_vars(RetryAfterDelay)

\* errors arriving at the boundary, one after the other
NextErr ==
  \E where \in Boundaries, err \in StoreErrors, env \in Envs, preset \in PresetStatuses :
    Catch(where, err, env, preset)

SpecErr == Init /\ [][NextErr]_vars

\* ------------------------------------------------ the list, page by page
\* the store after n creations by "u1" and one by "u2", one after the other;
\* tied: the first two fell into the same millisecond
PageEntry(i, u, route, tied) ==
  NewEntry(i, IdPrefix(getFinancialYear(Apr01)) \o PadStart(ToStr(i)),
           MkBody(route, Apr01, "PENDING", NoId, NoUser), u,
           IF tied /\ i = 2 THEN 1 ELSE i)

PageStore(n, tied) ==
  { PageEntry(i, "u1", RouteA, tied) : i \in 1..n }
    \cup { PageEntry(n + 1, "u2", RouteB, tied) }

InitPage ==
  /\ \E n \in 0..MaxOwned, tied \in BOOLEAN :
        /\ entries = PageStore(n, tied)
        /\ nextOid = n + 2
        /\ now = n + 1
  /\ allocLog = {}
  /\ retired = {}
  /\ req = [r \in Reqs |-> IdleReq]
  /\ fyIn = Mar31
  /\ fyOut = << >>
  /\ RestInit

\* a client sets out to read all its entries, limit l a page
WalkBegin(u, l) ==
  /\ AllIdle
  /\ walk.state # "walking"
  /\ walk' = [state |-> "walking", caller |-> u, limit |-> l, page |-> 1,
              seen |-> << >>]
  /\ UNCHANGED << storeVars, req, fyVars, sideVars >>

\* it asks for its next page
WalkFind ==
  /\ walk.state = "walking"
  /\ ListFind("r1", walk.caller,
              MkQuery(ToStr(walk.page), walk.limit, << >>, "", << >>, << >>))

\* it takes the entries of the response and goes on to the next page, up
\* to the last page the response tells of
WalkCollect ==
  /\ walk.state = "walking"
  /\ req["r1"].pc = "done"
  /\ LET d == req["r1"].data
     IN walk' = [walk EXCEPT
          !.seen = @ \o [i \in DOMAIN d.entries |-> d.entries[i].oid],
          !.page = @ + 1,
          !.state = IF walk.page >= d.pages THEN "complete" ELSE "walking"]
  /\ req' = [req EXCEPT !["r1"] = IdleReq]
  /\ UNCHANGED << storeVars, fyVars, sideVars >>

\* list requests on a store that nothing writes to: single requests with
\* any page and limit, and clients that read page after page
NextPage ==
  \/ \E u \in Users, q \in PageQueries :
       walk.state # "walking" /\ ListFind("r1", u, q)
  \/ ListCount("r1")
  \/ walk.state # "walking" /\ Ack("r1")
  \/ \E u \in Users, l \in WalkLimits : WalkBegin(u, l)
  \/ WalkFind
  \/ WalkCollect

SpecPage == InitPage /\ [][NextPage]_vars

\* creations one after the other: a create starts when none is in flight
NextSerial ==
  \/ \E u \in Users, b \in SerialBodies :
       AllIdle /\ PostRoom(MaxSerial, b) /\ PostStart("r1", u, b)
  \/ Room(MaxSerial, req["r1"].newId) /\ PostSave("r1")
  \/ Ack("r1")

SpecSerial == Init /\ [][NextSerial]_vars

\* getFinancialYear on its own, on every date of FYDates
InitFY ==
  /\ entries = {}
  /\ nextOid = 1
  /\ now = 0
  /\ allocLog = {}
  /\ retired = {}
  /\ req = [r \in Reqs |-> IdleReq]
  /\ fyIn \in FYDates
  /\ fyOut = << >>
  /\ RestInit

FYCompute ==
  /\ fyOut = << >>
  /\ fyOut' = getFinancialYear(fyIn)
  /\ UNCHANGED << storeVars, req, fyIn, restVars >>

FYPick(d) ==
  /\ fyOut # << >>
  /\ fyIn' = d
  /\ fyOut' = << >>
  /\ UNCHANGED << storeVars, req, restVars >>

NextFY == FYCompute \/ \E d \in FYDates : FYPick(d)

SpecFY == InitFY /\ [][NextFY]_vars

\* ================================================================ claims
Done(r) == req[r].pc = "done"

\* the decimal digits of n, written without the string operators of the code
FourDigits(n) == << Digits[((n \div 1000) % 10) + 1], Digits[((n \div 100) % 10) + 1],
                    Digits[((n \div 10) % 10) + 1], Digits[(n % 10) + 1] >>
TwoDigits(n) == << Digits[((n \div 10) % 10) + 1], Digits[(n % 10) + 1] >>

\* the label of the April-to-March year a date lies in
AprilToMarchLabel(date) ==
  LET start == IF date.month \in 4..12 THEN date.year ELSE date.year - 1
  IN FourDigits(start) \o << "-" >> \o TwoDigits((start + 1) % 100)

\* C1: in every reachable state no two persisted entries carry the same
\* business ID, whatever creates, updates and deletes have interleaved.
C1_UniqueBusinessId ==
  \A e1, e2 \in entries : e1.oid # e2.oid => e1.id # e2.id

\* an update that would have given a second entry an ID in use was refused
C1_Witness ==
  /\ Cardinality(entries) >= 2
  /\ \E r \in Reqs : Done(r) /\ req[r].op = "PUT" /\ req[r].err = "E11000"
       /\ \E e \in entries : e.oid # req[r].param /\ e.id = req[r].body.id

\* C2: a create that reaches its insert with an ID some entry holds fails
\* with the duplicate-key error, leaves the store as it is and ends there
\* (no retry); otherwise it persists its entry.  Two creates that read the
\* same maximum and computed the same ID end as one entry and one failure.
C2_RaceOutcome ==
  [][ \A r \in Reqs :
        (req[r].pc = "save" /\ req'[r] # req[r]) =>
          /\ req'[r].pc = "done"
          /\ IF \E e \in entries : e.id = req[r].newId
               THEN /\ entries' = entries
                    /\ req'[r].err = "E11000"
                    /\ req'[r].status # 201
               ELSE /\ req'[r].status = 201
                    /\ Cardinality(entries') = Cardinality(entries) + 1
                    /\ \E e \in entries' \ entries : e.id = req[r].newId ]_vars

\* the losing create has failed; the entry of the winning create, whose hook
\* read the same last entry and computed the same ID, is the one persisted
C2_Witness ==
  \E r \in Reqs :
    /\ Done(r) /\ req[r].op = "POST" /\ req[r].err = "E11000"
    /\ req[r].body.id = NoId
    /\ \E l \in allocLog :
         /\ l.allocated
         /\ l.lastEntry = req[r].lastEntry
         /\ getFinancialYear(l.date) = getFinancialYear(req[r].body.date)
         /\ Cardinality({ e \in entries : e.id = req[r].newId }) = 1
         /\ \E e \in entries : e.oid = l.oid /\ e.id = req[r].newId

\* C3: a create that fails because its business ID collides is answered
\* with a 400 duplicate error, never with a 5xx and never as a success.
C3_DuplicateIs400 ==
  \A r \in Reqs :
    (Done(r) /\ req[r].op = "POST" /\ req[r].err = "E11000") => req[r].status = 400

\* the rank of an inserted entry among the entries of its financial year,
\* in the order of creation
RankInYear(l) ==
  Cardinality({ o \in allocLog :
    getFinancialYear(o.date) = getFinancialYear(l.date) /\ o.oid <= l.oid })

\* serialized creations: every entry carries the prefix of the April-to-March
\* year of its date and, as suffix, its rank of creation within that year
C4_Sequential ==
  \A l \in allocLog : \E e \in entries :
    /\ e.oid = l.oid
    /\ e.id = << "T", "E", "-", "F", "Y" >> \o AprilToMarchLabel(l.date)
                \o << "-" >> \o FourDigits(RankInYear(l))

\* the entries created, in this order, with the three dates of the scenario
Scenario == { [oid |-> 1, date |-> Apr01], [oid |-> 2, date |-> Apr02],
              [oid |-> 3, date |-> Mar31] }

ScenarioRun == { [oid |-> l.oid, date |-> l.date] : l \in allocLog } = Scenario

IdOf(oid) == (CHOOSE e \in entries : e.oid = oid).id

Str_TE_FY2024_25 == << "T", "E", "-", "F", "Y", "2", "0", "2", "4", "-", "2", "5", "-" >>
Str_TE_FY2023_24 == << "T", "E", "-", "F", "Y", "2", "0", "2", "3", "-", "2", "4", "-" >>
Str_TE_FY2022_23 == << "T", "E", "-", "F", "Y", "2", "0", "2", "2", "-", "2", "3", "-" >>

\* C4 as stated: ..., and the dates 2024-04-01, 2024-04-02, 2023-03-31 yield
\* TE-FY2024-25-0001, TE-FY2024-25-0002, TE-FY2023-24-0001.
C4_AsStated ==
  /\ C4_Sequential
  /\ ScenarioRun =>
       /\ IdOf(1) = Str_TE_FY2024_25 \o << "0", "0", "0", "1" >>
       /\ IdOf(2) = Str_TE_FY2024_25 \o << "0", "0", "0", "2" >>
       /\ IdOf(3) = Str_TE_FY2023_24 \o << "0", "0", "0", "1" >>

\* C4, amended: when creations are serialized, the entries created within
\* one financial year receive the suffixes 0001, 0002, ... in creation order
\* and every financial year has its own sequence starting at 0001; the dates
\* 2024-04-01, 2024-04-02, 2023-03-31 yield TE-FY2024-25-0001,
\* TE-FY2024-25-0002, TE-FY2022-23-0001.
C4_Amended ==
  /\ C4_Sequential
  /\ ScenarioRun =>
       /\ IdOf(1) = Str_TE_FY2024_25 \o << "0", "0", "0", "1" >>
       /\ IdOf(2) = Str_TE_FY2024_25 \o << "0", "0", "0", "2" >>
       /\ IdOf(3) = Str_TE_FY2022_23 \o << "0", "0", "0", "1" >>

\* the three creations of the scenario have been made
C4_Witness == ScenarioRun /\ Cardinality(entries) = 3 /\ AllIdle

\* C5: getFinancialYear maps every date to its April-to-March year: April
\* or later in Y gives Y-(Y+1, two digits), January to March gives (Y-1)-(Y).
C5_FinancialYear ==
  fyOut # << >> => fyOut = AprilToMarchLabel(fyIn)

\* both sides of the boundary: 31 March and 1 April
C5_Witness ==
  /\ fyOut # << >>
  /\ \/ fyIn.month = 3 /\ fyIn.day = 31
        /\ fyOut = FourDigits(fyIn.year - 1) \o << "-" >> \o TwoDigits(fyIn.year % 100)
     \/ fyIn.month = 4 /\ fyIn.day = 1
        /\ fyOut = FourDigits(fyIn.year) \o << "-" >> \o TwoDigits((fyIn.year + 1) % 100)

\* the entries of a financial year, and the greatest of their sequences
YearIds(fy) == { e.id : e \in { x \in entries : StartsWith(x.id, IdPrefix(fy)) } }

WellFormed(id) ==
  LET part == LastPart(id)
  IN Len(part) >= PadWidth /\ \A i \in 1..Len(part) : IsDigit(part[i])

MaxSequence(fy) ==
  IF YearIds(fy) = {} THEN 0
  ELSE LET seqs == { ParseInt(LastPart(id)) : id \in YearIds(fy) }
       IN CHOOSE m \in seqs : \A n \in seqs : n <= m

\* C6: the sequence a new entry is given is the numeric maximum of the
\* sequences of its financial year plus one, also beyond 9999.
C6_MaxPlusOne ==
  [][ \A r \in Reqs :
        (req[r].pc = "idle" /\ req'[r].pc = "save") =>
          LET fy == getFinancialYear(req'[r].body.date)
          IN (\A id \in YearIds(fy) : WellFormed(id)) =>
               ParseInt(LastPart(req'[r].newId)) = MaxSequence(fy) + 1 ]_vars

\* C7: the business ID of an entry never changes after its creation,
\* whatever the body of a PUT contains.
C7_IdImmutable ==
  [][ \A e \in entries : \A f \in entries' : f.oid = e.oid => f.id = e.id ]_vars

\* C8: a PUT leaves the userId of the entry as it was, whatever its body
\* contains.
C8_OwnerPreserved ==
  [][ \A e \in entries : \A f \in entries' : f.oid = e.oid => f.userId = e.userId ]_vars

\* C9: every entry a list response returns belongs to the caller, and its
\* total counts entries of the caller only, whatever the query parameters.
C9_ListIsolation ==
  \A r \in Reqs :
    (Done(r) /\ req[r].op = "LIST" /\ req[r].status = 200) =>
      /\ \A i \in DOMAIN req[r].data.entries :
           req[r].data.entries[i].userId = req[r].caller
      /\ req[r].data.countedOwners \subseteq {req[r].caller}

\* a list was answered with an entry of the caller while another user holds
\* an entry that the other parameters of the query do not exclude
C9_Witness ==
  \E r \in Reqs :
    /\ Done(r) /\ req[r].op = "LIST" /\ req[r].status = 200
    /\ Len(req[r].data.entries) >= 1
    /\ req[r].data.total >= 1
    /\ \E e \in entries, u \in Users :
         u # req[r].caller /\ e.userId = u /\ Matches(e, u, req[r].query)

\* a request that names an entry, at the step that looks the entry up
Lookup(r) ==
  /\ req[r].pc = "idle"
  /\ req'[r].op \in {"GET", "PUT", "DELETE"}
  /\ req'[r].param # BadParam
  /\ req'[r].op = "PUT" => ValidBody(req'[r].body)

OfAnother(r) == \E e \in entries : e.oid = req'[r].param /\ e.userId # req'[r].caller
Missing(r) == \A e \in entries : e.oid # req'[r].param

ListAnswered(r) == Done(r) /\ req[r].op = "LIST" /\ req[r].status = 200

\* C11: in every list response pages = ceil(total/limit), pages is 0
\* exactly when total is 0, hasNext is (page < pages) and hasPrev is
\* (page > 1), with page >= 1 and limit in 1..5000.
C11_Envelope ==
  \A r \in Reqs : ListAnswered(r) =>
    LET d == req[r].data
    IN /\ d.page >= 1 /\ d.limit >= 1 /\ d.limit <= 5000
       /\ d.pages >= 0
       /\ d.pages * d.limit >= d.total
       /\ d.pages > 0 => (d.pages - 1) * d.limit < d.total
       /\ (d.pages = 0) <=> (d.total = 0)
       /\ d.hasNext <=> (d.page < d.pages)
       /\ d.hasPrev <=> (d.page > 1)

\* a page in the middle of a list whose last page is not full
C11_Witness ==
  \E r \in Reqs :
    /\ ListAnswered(r)
    /\ req[r].data.pages >= 3 /\ req[r].data.page = 2
    /\ req[r].data.total % req[r].data.limit # 0
    /\ req[r].data.hasNext /\ req[r].data.hasPrev

\* C12: with no writes while a client reads pages 1..pages, the pages
\* together hold every entry of the caller exactly once, newest first (equal
\* creation times in one fixed order), so that no entry is on two pages.
C12_EnumerationExact ==
  walk.state = "complete" =>
    LET mine == { e \in entries : e.userId = walk.caller }
        At(i) == (CHOOSE e \in entries : e.oid = walk.seen[i]).createdAt
    IN /\ Len(walk.seen) = Cardinality(mine)
       /\ { walk.seen[i] : i \in DOMAIN walk.seen } = { e.oid : e \in mine }
       /\ \A i, j \in DOMAIN walk.seen : i # j => walk.seen[i] # walk.seen[j]
       /\ \A i, j \in DOMAIN walk.seen : i < j => At(i) >= At(j)

Min(a, b) == IF a <= b THEN a ELSE b
Max(a, b) == IF a >= b THEN a ELSE b

\* C13: on a store that is not written to, page p with limit L holds
\* min(L, max(0, total - (p-1)*L)) entries; a page beyond the last one is
\* answered 200 with no entries, not with an error; with 25 entries and
\* limit 10, page 3 holds 5 entries, pages is 3, hasNext false, hasPrev true.
C13_PageSize ==
  \A r \in Reqs :
    /\ ListAnswered(r) =>
         LET d == req[r].data
         IN /\ Len(d.entries) = Min(d.limit, Max(0, d.total - (d.page - 1) * d.limit))
            /\ d.page > d.pages => d.entries = << >>
            /\ (d.total = 25 /\ d.limit = 10 /\ d.page = 3) =>
                 (Len(d.entries) = 5 /\ d.pages = 3 /\ ~d.hasNext /\ d.hasPrev)
    /\ ( /\ Done(r) /\ req[r].op = "LIST"
         /\ req[r].query.page \in GoodPages
         /\ req[r].query.limit \in GoodLimits ) => req[r].status = 200

\* page 3 of 25 entries at 10 a page
C13_Witness ==
  \E r \in Reqs :
    /\ ListAnswered(r)
    /\ Cardinality({ e \in entries : e.userId = req[r].caller }) = 25
    /\ req[r].query.page = << "3" >> /\ req[r].query.limit = << "1", "0" >>
    /\ Len(req[r].data.entries) = 5

\* a page beyond the last one has been answered with no entries
C13_WitnessBeyond ==
  \E r \in Reqs :
    /\ ListAnswered(r)
    /\ req[r].data.total > 0 /\ req[r].data.page > req[r].data.pages
    /\ req[r].data.entries = << >>

\* C14: a list request whose page is not a positive integer or whose limit
\* is not an integer in 1..5000 is answered 400 before any store query; the
\* value is never replaced by a default or a nearby valid value.
C14_InvalidRejected ==
  \A r \in Reqs :
    ( /\ req[r].op = "LIST"
      /\ req[r].query.page \in BadPages \/ req[r].query.limit \in BadLimits ) =>
        /\ Done(r) /\ req[r].status = 400 /\ req[r].err = "Validation failed"
        /\ req[r].data = NoData

\* a limit of 5001 beside a valid page has been rejected
C14_Witness ==
  \E r \in Reqs :
    /\ Done(r) /\ req[r].op = "LIST" /\ req[r].status = 400
    /\ req[r].query.page \in GoodPages
    /\ req[r].query.limit = << "5", "0", "0", "1" >>

\* a statistics request that has been answered
StatsAnswered(r) == Done(r) /\ req[r].op = "STATS" /\ req[r].status = 200

RECURSIVE SumCounts(_)
SumCounts(groups) ==
  IF groups = {} THEN 0
  ELSE LET g == CHOOSE x \in groups : TRUE
       IN g.count + SumCounts(groups \ {g})

\* C15: in every statistics response the counts of statusBreakdown add up
\* to totalEntries.
C15_BreakdownSumsToTotal ==
  \A r \in Reqs :
    StatsAnswered(r) => SumCounts(req[r].data.statusBreakdown) = req[r].data.totalEntries

\* the sum of the field total over a set of entries, entry by entry in the
\* order of their internal ids
RECURSIVE AmountUpTo(_, _)
AmountUpTo(es, n) ==
  IF n = 0 THEN 0
  ELSE AmountUpTo(es, n - 1)
         + (IF \E e \in es : e.oid = n THEN (CHOOSE e \in es : e.oid = n).total ELSE 0)

\* C16: the totalAmount of a statistics response is the sum of total over
\* exactly the caller's entries, as the store holds them when the sum is
\* queried, and 0 when the caller has none.
C16_TotalAmount ==
  [][ \A r \in Reqs :
        (req[r].pc = "sum" /\ req'[r] # req[r]) =>
          LET mine == { e \in entries : e.userId = req[r].caller }
          IN /\ req'[r].data.totalAmount = AmountUpTo(mine, nextOid)
             /\ mine = {} => req'[r].data.totalAmount = 0 ]_vars

\* answered with the amount of the caller's entries while another user
\* holds an entry with an amount of its own
C16_Witness ==
  \E r \in Reqs :
    /\ StatsAnswered(r)
    /\ req[r].data.totalAmount > 0
    /\ req[r].data.totalAmount = AmountUpTo({ e \in entries : e.userId = req[r].caller }, nextOid)
    /\ \E e \in entries : e.userId # req[r].caller /\ e.total > 0

\* a targeted read or update of a user by an authenticated caller has just
\* been answered
UserTargeted ==
  /\ req["r1"].pc = "idle" /\ req'["r1"].pc = "done"
  /\ req'["r1"].op \in {"USER_GET", "USER_PUT", "PROFILE_PUT", "BANK_PUT"}
  /\ req'["r1"].status # 401

\* the caller is the user the request names, or an admin
Permitted ==
  \/ \E u \in users : u.id = req'["r1"].caller /\ u.role = "admin"
  \/ /\ IsObjectId(req'["r1"].param)
     /\ HexString(req'["r1"].param) = req'["r1"].caller

\* the body of the request passes the validators of its route
BodyAccepted ==
  CASE req'["r1"].op = "USER_PUT" -> ValidUserBody(req'["r1"].body)
    [] req'["r1"].op = "PROFILE_PUT" -> ValidProfileBody(req'["r1"].body)
    [] req'["r1"].op = "BANK_PUT" -> ValidBankBody(req'["r1"].body)
    [] OTHER -> TRUE

\* C17 as stated: GET /:id, PUT /:id, PUT /:id/profile and PUT /:id/bank
\* succeed only for the user named or an admin; every other caller is
\* answered 403 and the users are left as they are.
C17_AsStated ==
  [][ UserTargeted =>
        /\ req'["r1"].status = 200 => Permitted
        /\ ~Permitted => (req'["r1"].status = 403 /\ users' = users) ]_vars

\* C17, amended: ... succeed only for the user named or an admin; every
\* other caller is refused and the users are left as they are: with 400 if
\* the body fails the route's validation, which is tested first, and with
\* 403 otherwise.
C17_Amended ==
  [][ UserTargeted =>
        /\ req'["r1"].status = 200 => Permitted
        /\ ~Permitted =>
             /\ users' = users
             /\ req'["r1"].status = IF BodyAccepted THEN 403 ELSE 400 ]_vars

\* a user has been refused with 403 the update of the admin's record, with
\* a body that would have been applied
C17_Witness ==
  /\ Done("r1") /\ req["r1"].op = "USER_PUT" /\ req["r1"].status = 403
  /\ req["r1"].caller = MemberId /\ req["r1"].param = AdminId
  /\ ValidUserBody(req["r1"].body) /\ "ownerName" \in req["r1"].body.keys
  /\ \E u \in users : u.id = AdminId /\ u.ownerName # Trim(req["r1"].body.ownerName)

\* C18: an admin who asks for the deletion of their own user id is answered
\* 400 and their record stays; no delete request removes the account of the
\* admin who issues it.
C18_SelfDeleteBlocked ==
  [][ ( /\ req["r1"].pc = "idle" /\ req'["r1"].pc = "done"
        /\ req'["r1"].op = "USER_DELETE" /\ req'["r1"].status # 401 ) =>
        /\ \E u \in users' : u.id = req'["r1"].caller
        /\ ( /\ IsObjectId(req'["r1"].param)
             /\ HexString(req'["r1"].param) = req'["r1"].caller
             /\ \E u \in users : u.id = req'["r1"].caller /\ u.role = "admin" ) =>
               req'["r1"].status = 400 ]_vars

StoreErrorCaught == caught.kind = "caught" /\ caught.preset = 200

\* the error is a failed cast of a record identifier
BadIdentifier == caught.err.name = "CastError" /\ caught.err.kind = "ObjectId"

\* the error is of none of the kinds the boundary knows
Unclassified ==
  /\ caught.err.name \notin {"CastError", "ValidationError", "JsonWebTokenError",
                              "TokenExpiredError"}
  /\ caught.err.code # 11000 /\ caught.err.status # 429 /\ ~caught.err.cors

\* the places that are given a record identifier
ById == { "GET /:id", "PUT /:id", "DELETE /:id" }

\* C20: a failed cast of a record identifier is answered 400 and an
\* unclassified error 500, in the catch blocks of the transport-entry
\* endpoints and in the central errorHandler.
C20_Classified ==
  StoreErrorCaught =>
    /\ (BadIdentifier /\ caught.where \in ById \cup {"errorHandler"}) =>
          caught.res.status = 400
    /\ Unclassified => caught.res.status = 500

\* errorHandler has answered an error of none of its kinds on a response
\* whose status was not set
InternalErrorHandled ==
  /\ StoreErrorCaught
  /\ caught.where = "errorHandler"
  /\ Unclassified

\* the response carries the error's own message: as its error text, or in
\* originalError beside the stack
CarriesOwnMessage ==
  caught.res.stack \/ caught.res.error = caught.err.message

\* C21: an unclassified internal error handled by errorHandler in production
\* is answered 500 'Internal server error' with neither the error's own
\* message nor a stack; the stack and the error's own message are in the
\* response in development only.
C21_NoLeak ==
  InternalErrorHandled =>
    /\ caught.env = "production" =>
         /\ caught.res.status = 500
         /\ caught.res.error = "Internal server error"
         /\ ~CarriesOwnMessage
    /\ CarriesOwnMessage => caught.env = "development"

\* C22: in every reachable state the amounts bill, handleCharges,
\* detention, freight and total of every persisted entry are not below zero,
\* after any sequence of validated creations and updates.
C22_NonNegative ==
  \A e \in entries : \A f \in MoneyFields : e[f] >= 0

\* a creation has been answered 201
Created(r) == Done(r) /\ req[r].op = "POST" /\ req[r].status = 201

\* C23: every entry created through POST /api/transport-entries is owned by
\* the authenticated caller, whatever the body contains, a userId naming
\* another user included.
C23_CreatedOwned ==
  \A r \in Reqs :
    Created(r) =>
      /\ req[r].data.userId = req[r].caller
      /\ \E e \in entries : e.oid = req[r].data.oid /\ e.userId = req[r].caller

\* a creation whose body named another user has been answered 201
C23_Witness ==
  \E r \in Reqs :
    /\ Created(r)
    /\ req[r].body.userId \in Users \ {req[r].caller}

\* C24: a business ID that an entry held is never later given to a
\* different entry: no persisted entry carries the ID of an entry that was
\* deleted (internal ids are never given twice, so such an entry is another
\* one), the entry with the highest sequence of its year included.
C24_NoReuse ==
  \A e \in entries : e.id \notin retired

\* C25: the business ID of every entry a creation persists is the one the
\* allocator generated, TE-FY<fy>-<seq> with fy the financial year of the
\* entry's date, also when the body of the request carries an id of its own.
C25_AllocatorGenerated ==
  \A r \in Reqs :
    Created(r) =>
      /\ StartsWith(req[r].data.id, IdPrefix(getFinancialYear(req[r].body.date)))
      /\ WellFormed(req[r].data.id)
      /\ \E l \in allocLog :
           /\ l.oid = req[r].data.oid
           /\ l.allocated
           /\ req[r].data.id = NextId(l.date, l.lastEntry)

\* C26: PUT /:id reports success only for an entry that exists: when the
\* entry is deleted between the handler's lookup and its update, the answer
\* is not a 200 with empty data.
C26_NoPhantomUpdate ==
  \A r \in Reqs :
    (Done(r) /\ req[r].op = "PUT" /\ req[r].status = 200) =>
      /\ req[r].data.kind = "entry"
      /\ \E e \in entries : e.oid = req[r].param

\* C27: the statistics are a consistent snapshot under concurrency: when
\* creations or deletions of the caller's entries fall between the count
\* and the grouping, the counts of the grouping still add up to the
\* totalEntries the handler returns.
C27_ConsistentSnapshot ==
  [][ \A r \in Reqs :
        (req[r].pc = "group" /\ req'[r].pc = "sum") =>
          SumCounts(req'[r].data.statusBreakdown) = req'[r].data.totalEntries ]_vars

\* a request for a new password with a well-formed address has been answered
ForgotAnswered(r) == Done(r) /\ req[r].op = "FORGOT" /\ IsEmail(req[r].body.email)

\* the address of the request is that of an account
Registered(r) == \E u \in users : u.email = ToLower(Trim(req[r].body.email))

\* C28: POST /api/auth/forgot-password does not tell whether an account
\* exists: two requests that differ only in whether their well-formed
\* address is that of an account get the same status and the same body.
C28_NoEnumeration ==
  \A r1, r2 \in Reqs :
    (ForgotAnswered(r1) /\ ForgotAnswered(r2) /\ Registered(r1) /\ ~Registered(r2)) =>
      /\ req[r1].status = req[r2].status
      /\ req[r1].data = req[r2].data

\* an update of a user has been answered to a caller whose role is user
UpdateByUser ==
  /\ req["r1"].pc = "idle" /\ req'["r1"].pc = "done"
  /\ req'["r1"].op \in {"USER_PUT", "PROFILE_PUT", "BANK_PUT"}
  /\ \E u \in users : u.id = req'["r1"].caller /\ u.role = "user"

\* C29: no request of a caller whose role is user changes any user's role
\* or isActive: after PUT /:id, PUT /:id/profile or PUT /:id/bank with any
\* body both are what they were before the request.
C29_RoleFrame ==
  [][ UpdateByUser =>
        \A u \in users :
          \E v \in users' : v.id = u.id /\ v.role = u.role /\ v.isActive = u.isActive ]_vars

\* a user's update of the own record has been applied, with a body that
\* asked for the role admin and for isActive false
C29_Witness ==
  /\ Done("r1") /\ req["r1"].op = "USER_PUT" /\ req["r1"].status = 200
  /\ req["r1"].caller = MemberId
  /\ {"role", "isActive"} \subseteq req["r1"].body.keys
  /\ req["r1"].body.role = "admin" /\ ~req["r1"].body.isActive
  /\ \E u \in users : u.id = MemberId /\ u.role = "user" /\ u.isActive

\* the error a call of sendEmail met last
LastError == mail.errors[Len(mail.errors)]

\* the error is one of the connection or of a timeout
Retryable(error) == error.code \in retryableErrors \/ error.timeout

\* C30: sendEmail ends by returning a result: at most 4 sends (the first
\* and maxRetries = 3 more), a further send only after a connection or
\* timeout error, success = false with the last error once the retries are
\* used up or the error is of another kind, and no send at all when the
\* service is disabled.
C30_Terminates ==
  /\ [](mail.attempts <= 4)
  /\ [](mail.isDisabled => mail.attempts = 0)
  /\ []((mail.state = "returned") =>
          /\ mail.result.kind = "result"
          /\ mail.isDisabled => (~mail.result.success /\ mail.result.disabled)
          /\ (~mail.isDisabled /\ mail.result.success) =>
               Len(mail.errors) = mail.attempts - 1
          /\ (~mail.isDisabled /\ ~mail.result.success) =>
               /\ Len(mail.errors) = mail.attempts
               /\ mail.result.error = LastError
               /\ mail.attempts = 4 \/ ~Retryable(LastError))
  /\ [][(mail'.attempts > mail.attempts /\ mail.attempts > 0) =>
          Retryable(LastError)]_vars
  /\ [][(/\ mail.state = "sending"
         /\ Len(mail'.errors) > Len(mail.errors)
         /\ mail.attempts = 4 \/ ~Retryable(mail'.errors[Len(mail'.errors)])) =>
          (mail'.state = "returned" /\ ~mail'.result.success)]_vars
  /\ ((mail.state \in {"sending", "delay"}) ~> (mail.state = "returned"))

\* a call has returned the last error after four sends that timed out or
\* lost their connection
C30_Witness ==
  /\ mail.state = "returned"
  /\ mail.attempts = 4
  /\ ~mail.result.success
  /\ mail.result.error = SendTimeout
  /\ \A i \in 1..4 : Retryable(mail.errors[i])

\* a call to the disabled service has returned without a send
C30_WitnessDisabled ==
  /\ mail.state = "returned"
  /\ mail.isDisabled
  /\ mail.attempts = 0

====
